---- MODULE Spec2Model ----
(***************************************************************************)
(* A model of oboe's AudioStreamBuilder / AudioStreamBuilderAsync          *)
(* (oboe/src/audio_stream_builder.rs): the typed builder over the raw      *)
(* oboe_AudioStreamBuilder record, the callback binding and open_stream,   *)
(* together with the platform boundary (oboe-sys) and the stream objects   *)
(* the builder hands its results to.                                       *)
(***************************************************************************)
EXTENDS Integers, Sequences, FiniteSets, TLC

(***************************************************************************)
(* Bounds of the exploration.                                              *)
(***************************************************************************)
\* setter calls made on one builder
MaxCalls == 3
\* callback invocations the audio thread makes on one stream
MaxInvocations == 2
\* invocations the platform attempts on a stream that is already closed
MaxLateAttempts == 1
\* setter calls made on the builder of the configure-and-open scenario
ScenarioCalls == 4
\* devices whose direction is built with AudioDeviceDirection::new
MaxDevices == 4

(***************************************************************************)
(* Type markers (the D, C, T parameters of AudioStreamBuilder<D, C, T>).    *)
(***************************************************************************)
Directions == {"Input", "Output"}
ChannelCounts == {"Unspecified", "Mono", "Stereo"}
Formats == {"Unspecified", "i16", "f32"}

(***************************************************************************)
(* Argument values the setters are called with.                            *)
(***************************************************************************)
AudioApis == {"Unspecified", "OpenSLES", "AAudio"}
SharingModes == {"Exclusive", "Shared"}
PerformanceModes == {"LowLatency"}
Usages == {"Game"}
ContentTypes == {"Speech"}
InputPresets == {"Generic"}
SessionIds == {"None", "Allocate"}
Qualities == {"Best"}
SampleRates == {16000, 48000}
FrameCounts == {256}
DeviceIds == {7}

(***************************************************************************)
(* `as i32` on the enums of oboe/src/definitions.rs and the associated     *)
(* constants of the type markers (oboe/src/type_guide.rs).                 *)
(***************************************************************************)
DIRECTION(X) == X

CHANNEL_COUNT(X) == X

FORMAT(X) == CASE X = "i16" -> "I16" [] X = "f32" -> "F32" [] OTHER -> "Unspecified"

DirectionAsI32(d) == CASE d = "Output" -> 0 [] d = "Input" -> 1

ChannelCountAsI32(c) == CASE c = "Unspecified" -> 0 [] c = "Mono" -> 1 [] c = "Stereo" -> 2

AudioFormatAsI32(f) == CASE f = "Unspecified" -> 0 [] f = "I16" -> 1 [] f = "F32" -> 2

AudioApiAsI32(a) == CASE a = "Unspecified" -> 0 [] a = "OpenSLES" -> 1 [] a = "AAudio" -> 2

AudioApiFromI32(i) == CASE i = 0 -> "Unspecified" [] i = 1 -> "OpenSLES" [] i = 2 -> "AAudio"

SharingModeAsI32(s) == CASE s = "Exclusive" -> 0 [] s = "Shared" -> 1

PerformanceModeAsI32(p) == CASE p = "None" -> 10 [] p = "PowerSaving" -> 11 [] p = "LowLatency" -> 12

UsageAsI32(u) == CASE u = "Media" -> 1 [] u = "Game" -> 14

ContentTypeAsI32(c) == CASE c = "Speech" -> 1 [] c = "Music" -> 2

InputPresetAsI32(p) == CASE p = "Generic" -> 1 [] p = "VoiceRecognition" -> 6

SessionIdAsI32(s) == CASE s = "None" -> -1 [] s = "Allocate" -> 0

QualityAsI32(q) == CASE q = "None" -> 0 [] q = "Best" -> 5

(***************************************************************************)
(* Pointers held in mStreamCallback: null, or the address taken by         *)
(* set_callback.                                                           *)
(***************************************************************************)
NullPtr == "null"

\* The address of the temporary that holds the value of callback.raw_callback().
TemporaryPtr == "temporary"

(***************************************************************************)
(* oboe_AudioStreamBuilder_new: the record with every field at the         *)
(* platform's default.                                                     *)
(***************************************************************************)
oboe_AudioStreamBuilder_new ==
    [_base |-> [mDirection |-> DirectionAsI32("Output"),
                mChannelCount |-> ChannelCountAsI32("Unspecified"),
                mFormat |-> AudioFormatAsI32("Unspecified"),
                mSampleRate |-> 0,
                mFramesPerCallback |-> 0,
                mBufferCapacityInFrames |-> 0,
                mSharingMode |-> SharingModeAsI32("Shared"),
                mPerformanceMode |-> PerformanceModeAsI32("None"),
                mUsage |-> UsageAsI32("Media"),
                mContentType |-> ContentTypeAsI32("Music"),
                mInputPreset |-> InputPresetAsI32("VoiceRecognition"),
                mSessionId |-> SessionIdAsI32("None"),
                mDeviceId |-> 0,
                mChannelConversionAllowed |-> TRUE,
                mFormatConversionAllowed |-> TRUE,
                mSampleRateConversionQuality |-> QualityAsI32("None"),
                mStreamCallback |-> NullPtr],
     mAudioApi |-> AudioApiAsI32("Unspecified")]

VARIABLES
    kind,            \* the builder value the caller holds: "Sync", "Async" or "Moved"
    raw,             \* the builder's ffi::oboe_AudioStreamBuilder
    D, C, T,         \* the builder's type parameters
    args,            \* per orthogonal setter, the arguments of its calls, in order
    nCalls,          \* setter calls made on the builder
    callBudget,      \* setter calls explored on one builder
    callback,        \* the AudioCallbackWrapper<D, F>: the declared type of F
    owner,           \* who holds the callback wrapper's storage
    releasedBy,      \* who released the callback wrapper's storage
    result,          \* what open_stream returned
    stream,          \* the stream object open_stream returned
    slot,            \* the MaybeUninit out slot of open_stream
    nativeStreams,   \* the platform's native stream resources, by handle
    platformOpens,   \* invocations of oboe_AudioStreamBuilder_openStream
    status,          \* the status the platform's last open returned
    openStreamCalls, \* calls of open_stream
    supported,       \* the platform fact isAAudioSupported
    recommended,     \* the platform fact isAAudioRecommended
    inCallback,      \* the audio thread is inside the callback
    invocations,     \* callback invocations the audio thread has made
    lateAttempts,    \* invocations the platform attempted on a closed stream
    crashed,         \* an invocation through a dangling pointer faulted
    devices          \* the calls of AudioDeviceDirection::new: arguments and result

builderVars == <<kind, raw, D, C, T, args, nCalls, callBudget>>

openVars == <<result, stream, slot, nativeStreams, platformOpens, status, openStreamCalls>>

platformVars == <<supported, recommended>>

deviceVars == <<devices>>

threadVars == <<inCallback, invocations, lateAttempts, crashed>>

vars == <<kind, raw, D, C, T, args, nCalls, callBudget, callback, owner, releasedBy, result, stream,
          slot, nativeStreams, platformOpens, status, openStreamCalls, supported,
          recommended, inCallback, invocations, lateAttempts, crashed, devices>>

NoCallback == [tag |-> "none"]

NoResult == [tag |-> "none"]

NoStream == [tag |-> "none"]

NoBuilder == [tag |-> "moved"]

Uninit == "uninit"

OrthogonalSetters ==
    {"set_sample_rate", "set_frames_per_callback", "set_buffer_capacity_in_frames",
     "set_audio_api", "set_sharing_mode", "set_performance_mode", "set_usage",
     "set_content_type", "set_input_preset", "set_session_id", "set_device_id",
     "set_channel_conversion_allowed", "set_format_conversion_allowed",
     "set_sample_rate_conversion_quality"}

\* No orthogonal setter has been called.
Untouched == [s \in OrthogonalSetters |-> <<>>]

(***************************************************************************)
(* AudioStreamBuilder::new                                                 *)
(***************************************************************************)
\* A new whose builder is typed as an input builder.
new_typed_input ==
    [raw |-> oboe_AudioStreamBuilder_new, D |-> "Input", C |-> "Unspecified",
     T |-> "Unspecified"]

new ==
    [raw |-> oboe_AudioStreamBuilder_new, D |-> "Output", C |-> "Unspecified",
     T |-> "Unspecified"]

\* The state new leaves behind, on a platform of either kind.
Fresh ==
    /\ kind = "Sync"
    /\ raw = new.raw
    /\ D = new.D
    /\ C = new.C
    /\ T = new.T
    /\ args = Untouched
    /\ nCalls = 0
    /\ callback = NoCallback
    /\ owner = "none"
    /\ releasedBy = "none"
    /\ result = NoResult
    /\ stream = NoStream
    /\ slot = Uninit
    /\ nativeStreams = <<>>
    /\ platformOpens = 0
    /\ status = "none"
    /\ openStreamCalls = 0
    /\ supported \in BOOLEAN
    /\ recommended \in BOOLEAN
    /\ inCallback = FALSE
    /\ invocations = 0
    /\ lateAttempts = 0
    /\ crashed = FALSE

Init == Fresh /\ callBudget = MaxCalls /\ devices = <<>>

(***************************************************************************)
(* A setter is callable on an AudioStreamBuilder the caller still holds.   *)
(* The call is counted and, for an orthogonal setter, its argument noted.  *)
(***************************************************************************)
\* Setters that are offered by the async builder as well.
Callable_on_either_builder == kind \in {"Sync", "Async"} /\ nCalls < callBudget

Callable == kind = "Sync" /\ nCalls < callBudget

Rest == UNCHANGED <<kind, callback, owner, releasedBy, openVars, platformVars, deviceVars, threadVars>>

TypedCall ==
    /\ nCalls' = nCalls + 1
    /\ UNCHANGED <<args, callBudget>>
    /\ Rest

OrthogonalCall(setter, arg) ==
    /\ nCalls' = nCalls + 1
    /\ args' = [args EXCEPT ![setter] = Append(@, arg)]
    /\ UNCHANGED <<D, C, T, callBudget>>
    /\ Rest

(***************************************************************************)
(* The type-narrowing setters.                                             *)
(***************************************************************************)
\* A set_channel_count that re-types the builder but writes the record only
\* while its channel count is still unspecified.
set_channel_count_first_wins(X) ==
    /\ Callable
    /\ raw' = IF raw._base.mChannelCount = ChannelCountAsI32("Unspecified")
              THEN [raw EXCEPT !._base.mChannelCount = ChannelCountAsI32(CHANNEL_COUNT(X))]
              ELSE raw
    /\ C' = X
    /\ UNCHANGED <<D, T>>
    /\ TypedCall

set_channel_count(X) ==
    /\ Callable
    /\ raw' = [raw EXCEPT !._base.mChannelCount = ChannelCountAsI32(CHANNEL_COUNT(X))]
    /\ C' = X
    /\ UNCHANGED <<D, T>>
    /\ TypedCall

set_mono == set_channel_count("Mono")

set_stereo == set_channel_count("Stereo")

\* A set_direction that also puts the channel count back to unspecified.
set_direction_resetting_channel_count(X) ==
    /\ Callable
    /\ raw' = [raw EXCEPT !._base.mDirection = DirectionAsI32(DIRECTION(X)),
                          !._base.mChannelCount = ChannelCountAsI32("Unspecified")]
    /\ D' = X
    /\ UNCHANGED <<C, T>>
    /\ TypedCall

set_direction(X) ==
    /\ Callable
    /\ raw' = [raw EXCEPT !._base.mDirection = DirectionAsI32(DIRECTION(X))]
    /\ D' = X
    /\ UNCHANGED <<C, T>>
    /\ TypedCall

set_input == set_direction("Input")

set_output == set_direction("Output")

\* A set_format that re-types the builder and leaves the record's format alone.
set_format_type_only(X) ==
    /\ Callable
    /\ raw' = raw
    /\ T' = X
    /\ UNCHANGED <<D, C>>
    /\ TypedCall

set_format(X) ==
    /\ Callable
    /\ raw' = [raw EXCEPT !._base.mFormat = AudioFormatAsI32(FORMAT(X))]
    /\ T' = X
    /\ UNCHANGED <<D, C>>
    /\ TypedCall

set_i16 == set_format("i16")

set_f32 == set_format("f32")

(***************************************************************************)
(* The orthogonal setters.                                                 *)
(***************************************************************************)
\* A set_sample_rate that stores into the buffer capacity field.
set_sample_rate_into_buffer_capacity(sample_rate) ==
    /\ Callable
    /\ raw' = [raw EXCEPT !._base.mBufferCapacityInFrames = sample_rate]
    /\ OrthogonalCall("set_sample_rate", sample_rate)

set_sample_rate(sample_rate) ==
    /\ Callable
    /\ raw' = [raw EXCEPT !._base.mSampleRate = sample_rate]
    /\ OrthogonalCall("set_sample_rate", sample_rate)

set_frames_per_callback(frames_per_callback) ==
    /\ Callable
    /\ raw' = [raw EXCEPT !._base.mFramesPerCallback = frames_per_callback]
    /\ OrthogonalCall("set_frames_per_callback", frames_per_callback)

set_buffer_capacity_in_frames(buffer_capacity_in_frames) ==
    /\ Callable
    /\ raw' = [raw EXCEPT !._base.mBufferCapacityInFrames = buffer_capacity_in_frames]
    /\ OrthogonalCall("set_buffer_capacity_in_frames", buffer_capacity_in_frames)

set_audio_api(audio_api) ==
    /\ Callable
    /\ raw' = [raw EXCEPT !.mAudioApi = AudioApiAsI32(audio_api)]
    /\ OrthogonalCall("set_audio_api", audio_api)

set_sharing_mode(sharing_mode) ==
    /\ Callable
    /\ raw' = [raw EXCEPT !._base.mSharingMode = SharingModeAsI32(sharing_mode)]
    /\ OrthogonalCall("set_sharing_mode", sharing_mode)

set_shared == set_sharing_mode("Shared")

set_exclusive == set_sharing_mode("Exclusive")

set_performance_mode(performance_mode) ==
    /\ Callable
    /\ raw' = [raw EXCEPT !._base.mPerformanceMode = PerformanceModeAsI32(performance_mode)]
    /\ OrthogonalCall("set_performance_mode", performance_mode)

set_usage(usage) ==
    /\ Callable
    /\ raw' = [raw EXCEPT !._base.mUsage = UsageAsI32(usage)]
    /\ OrthogonalCall("set_usage", usage)

set_content_type(content_type) ==
    /\ Callable
    /\ raw' = [raw EXCEPT !._base.mContentType = ContentTypeAsI32(content_type)]
    /\ OrthogonalCall("set_content_type", content_type)

set_input_preset(input_preset) ==
    /\ Callable
    /\ raw' = [raw EXCEPT !._base.mInputPreset = InputPresetAsI32(input_preset)]
    /\ OrthogonalCall("set_input_preset", input_preset)

\* A set_session_id that leaves the record as it was.
set_session_id_discarded(session_id) ==
    /\ Callable
    /\ raw' = raw
    /\ OrthogonalCall("set_session_id", session_id)

set_session_id(session_id) ==
    /\ Callable
    /\ raw' = [raw EXCEPT !._base.mSessionId = SessionIdAsI32(session_id)]
    /\ OrthogonalCall("set_session_id", session_id)

\* A set_device_id that stores into the session id field.
set_device_id_into_session_id(device_id) ==
    /\ Callable
    /\ raw' = [raw EXCEPT !._base.mSessionId = device_id]
    /\ OrthogonalCall("set_device_id", device_id)

set_device_id(device_id) ==
    /\ Callable
    /\ raw' = [raw EXCEPT !._base.mDeviceId = device_id]
    /\ OrthogonalCall("set_device_id", device_id)

set_channel_conversion_allowed(allowed) ==
    /\ Callable
    /\ raw' = [raw EXCEPT !._base.mChannelConversionAllowed = allowed]
    /\ OrthogonalCall("set_channel_conversion_allowed", allowed)

set_format_conversion_allowed(allowed) ==
    /\ Callable
    /\ raw' = [raw EXCEPT !._base.mFormatConversionAllowed = allowed]
    /\ OrthogonalCall("set_format_conversion_allowed", allowed)

set_sample_rate_conversion_quality(quality) ==
    /\ Callable
    /\ raw' = [raw EXCEPT !._base.mSampleRateConversionQuality = QualityAsI32(quality)]
    /\ OrthogonalCall("set_sample_rate_conversion_quality", quality)

(***************************************************************************)
(* The queries.                                                            *)
(***************************************************************************)
is_aaudio_supported == supported

is_aaudio_recommended == recommended

get_audio_api(r) == AudioApiFromI32(r.mAudioApi)

\* A will_use_aaudio that asks the recommended probe in both cases.
will_use_aaudio_recommended_only(r) ==
    \/ (r.mAudioApi = AudioApiAsI32("AAudio") /\ is_aaudio_recommended)
    \/ (r.mAudioApi = AudioApiAsI32("Unspecified") /\ is_aaudio_recommended)

\* A will_use_aaudio that asks the supported probe in both cases.
will_use_aaudio_supported_only(r) ==
    \/ (r.mAudioApi = AudioApiAsI32("AAudio") /\ is_aaudio_supported)
    \/ (r.mAudioApi = AudioApiAsI32("Unspecified") /\ is_aaudio_supported)

\* A will_use_aaudio that takes a request for AAudio as granted.
will_use_aaudio_ignoring_support(r) ==
    \/ r.mAudioApi = AudioApiAsI32("AAudio")
    \/ (r.mAudioApi = AudioApiAsI32("Unspecified") /\ is_aaudio_recommended)

will_use_aaudio(r) ==
    \/ (r.mAudioApi = AudioApiAsI32("AAudio") /\ is_aaudio_supported)
    \/ (r.mAudioApi = AudioApiAsI32("Unspecified") /\ is_aaudio_recommended)

\* A call of a query: it takes &self, returns its value and changes nothing.
call_get_audio_api ==
    /\ kind = "Sync"
    /\ get_audio_api(raw) \in AudioApis
    /\ UNCHANGED vars

call_will_use_aaudio ==
    /\ kind = "Sync"
    /\ will_use_aaudio(raw) \in BOOLEAN
    /\ UNCHANGED vars

(***************************************************************************)
(* The platform boundary.  The status of an open is the platform's to      *)
(* choose; so is whether it opens the stream with the values asked for or  *)
(* with values of its own.                                                 *)
(***************************************************************************)
Statuses == {"Ok", "ErrorInternal", "ErrorUnavailable"}

wrap_status(st) ==
    IF st = "Ok" THEN [tag |-> "Ok"] ELSE [tag |-> "Err", error |-> st]

\* The backend the platform serves a request with.
SelectBackend(r) ==
    IF \/ (r.mAudioApi = AudioApiAsI32("AAudio") /\ supported)
       \/ (r.mAudioApi = AudioApiAsI32("Unspecified") /\ recommended)
    THEN "AAudio"
    ELSE "OpenSLES"

\* The values the platform opens the stream with.
Negotiate(r, substitute) ==
    [direction |-> r._base.mDirection,
     channelCount |-> IF substitute \/ r._base.mChannelCount = ChannelCountAsI32("Unspecified")
                      THEN ChannelCountAsI32("Stereo")
                      ELSE r._base.mChannelCount,
     format |-> IF substitute \/ r._base.mFormat = AudioFormatAsI32("Unspecified")
                THEN AudioFormatAsI32("I16")
                ELSE r._base.mFormat,
     sampleRate |-> IF substitute \/ r._base.mSampleRate = 0
                    THEN 48000
                    ELSE r._base.mSampleRate,
     sessionId |-> IF r._base.mSessionId = SessionIdAsI32("Allocate")
                   THEN 1
                   ELSE r._base.mSessionId,
     audioApi |-> SelectBackend(r)]

\* What one call of the platform's stream-creation entry point leaves behind:
\* its status, the out slot and the native streams it allocated.
oboe_AudioStreamBuilder_openStream(r, st, substitute, handle) ==
    IF st = "Ok"
    THEN [status |-> st,
          stream |-> handle,
          allocated |-> handle :> [state |-> "Open",
                                   callback |-> r._base.mStreamCallback,
                                   actual |-> Negotiate(r, substitute)]]
    ELSE [status |-> st, stream |-> Uninit, allocated |-> <<>>]

(***************************************************************************)
(* The stream objects.                                                     *)
(***************************************************************************)
AudioStreamSync_wrap_raw(handle, d, t, c) ==
    [tag |-> "Sync", raw |-> handle, D |-> d, T |-> t, C |-> c]

AudioStreamAsync_wrap_raw(handle, cb, d) ==
    [tag |-> "Async", raw |-> handle, D |-> d, callback |-> cb]

\* Where the callback wrapper is stored now.
AdapterStorage ==
    CASE owner = "builder" -> "AudioStreamBuilderAsync.callback"
      [] owner = "stream" -> "AudioStreamAsync.callback"
      [] OTHER -> "nowhere"

(***************************************************************************)
(* set_callback: the callback types a builder accepts, and the binding.    *)
(***************************************************************************)
Callbacks == [trait : Directions, T : Formats, C : ChannelCounts]

IsFrameType(t, c) == t \in Formats /\ c \in ChannelCounts

\* A bound that compares the sample format only.
CallbackBound_format_only(F, trait) ==
    /\ F.trait = trait
    /\ F.T = T
    /\ IsFrameType(T, C)

CallbackBound(F, trait) ==
    /\ F.trait = trait
    /\ <<F.T, F.C>> = <<T, C>>
    /\ IsFrameType(T, C)

AudioCallbackWrapper_wrap(trait, F) == [D |-> trait, F |-> F]

\* A bind that builds the async builder around a new record.
Bind_with_new_record(trait, F) ==
    /\ callback' = AudioCallbackWrapper_wrap(trait, F)
    /\ raw' = [oboe_AudioStreamBuilder_new EXCEPT !._base.mStreamCallback = TemporaryPtr]
    /\ kind' = "Async"
    /\ owner' = "builder"
    /\ UNCHANGED <<D, C, T, args, nCalls, callBudget, releasedBy, openVars, platformVars, deviceVars,
                   threadVars>>

\* A bind that wraps the callback and leaves the record's pointer as it was.
Bind_without_pointer(trait, F) ==
    /\ callback' = AudioCallbackWrapper_wrap(trait, F)
    /\ raw' = raw
    /\ kind' = "Async"
    /\ owner' = "builder"
    /\ UNCHANGED <<D, C, T, args, nCalls, callBudget, releasedBy, openVars, platformVars, deviceVars,
                   threadVars>>

Bind(trait, F) ==
    /\ callback' = AudioCallbackWrapper_wrap(trait, F)
    /\ raw' = [raw EXCEPT !._base.mStreamCallback = TemporaryPtr]
    /\ kind' = "Async"
    /\ owner' = "builder"
    /\ UNCHANGED <<D, C, T, args, nCalls, callBudget, releasedBy, openVars, platformVars, deviceVars,
                   threadVars>>

set_callback_input(F) ==
    /\ kind = "Sync"
    /\ D = "Input"
    /\ CallbackBound(F, "Input")
    /\ Bind("Input", F)

set_callback_output(F) ==
    /\ kind = "Sync"
    /\ D = "Output"
    /\ CallbackBound(F, "Output")
    /\ Bind("Output", F)

(***************************************************************************)
(* open_stream.  The builder is taken by value: it is gone when the call   *)
(* returns, whatever the status.                                           *)
(***************************************************************************)
\* An open_stream that borrows the builder instead of taking it.
Consume_by_reference ==
    /\ openStreamCalls' = openStreamCalls + 1
    /\ UNCHANGED <<builderVars, callback, platformVars, deviceVars, threadVars>>

Consume ==
    /\ kind' = "Moved"
    /\ raw' = NoBuilder
    /\ args' = Untouched
    /\ nCalls' = 0
    /\ openStreamCalls' = openStreamCalls + 1
    /\ UNCHANGED <<D, C, T, callBudget, callback, platformVars, deviceVars, threadVars>>

\* The platform opened the stream with a value other than the one r held.
Differs(r, actual) ==
    \/ actual.channelCount # r._base.mChannelCount
    \/ actual.format # r._base.mFormat
    \/ actual.sampleRate # r._base.mSampleRate
    \/ actual.sessionId # r._base.mSessionId

\* An open step that answers a stream opened with other values with an error.
OpenStep_rejects_substitution(st, substitute, wrapped) ==
    LET out == oboe_AudioStreamBuilder_openStream(raw, st, substitute, platformOpens + 1)
        refused == out.status = "Ok" /\ Differs(raw, out.allocated[platformOpens + 1].actual)
        res == IF refused
               THEN [tag |-> "Err", error |-> "ErrorInternal"]
               ELSE wrap_status(out.status)
    IN /\ platformOpens' = platformOpens + 1
       /\ status' = out.status
       /\ nativeStreams' = nativeStreams @@ out.allocated
       /\ result' = res
       /\ slot' = IF res.tag = "Ok" THEN "read" ELSE out.stream
       /\ stream' = IF res.tag = "Ok" THEN wrapped ELSE NoStream

\* An open step that builds the stream object whatever the status.
OpenStep_status_ignored(st, substitute, wrapped) ==
    LET out == oboe_AudioStreamBuilder_openStream(raw, st, substitute, platformOpens + 1)
        res == wrap_status(out.status)
    IN /\ platformOpens' = platformOpens + 1
       /\ status' = out.status
       /\ nativeStreams' = nativeStreams @@ out.allocated
       /\ result' = res
       /\ slot' = "read"
       /\ stream' = wrapped

\* The platform call and what open_stream makes of it: wrap_status(..).map(..)
\* builds the stream object, from the out slot, only on the OK status.
OpenStep(st, substitute, wrapped) ==
    LET out == oboe_AudioStreamBuilder_openStream(raw, st, substitute, platformOpens + 1)
        res == wrap_status(out.status)
    IN /\ platformOpens' = platformOpens + 1
       /\ status' = out.status
       /\ nativeStreams' = nativeStreams @@ out.allocated
       /\ result' = res
       /\ slot' = IF res.tag = "Ok" THEN "read" ELSE out.stream
       /\ stream' = IF res.tag = "Ok" THEN wrapped ELSE NoStream

\* An open_stream that wraps a handle other than the one the platform wrote.
open_stream_wraps_other_handle ==
    /\ kind = "Sync"
    /\ \E st \in Statuses, substitute \in BOOLEAN :
         OpenStep(st, substitute, AudioStreamSync_wrap_raw(platformOpens, D, T, C))
    /\ UNCHANGED <<owner, releasedBy>>
    /\ Consume

open_stream ==
    /\ kind = "Sync"
    /\ \E st \in Statuses, substitute \in BOOLEAN :
         OpenStep(st, substitute, AudioStreamSync_wrap_raw(platformOpens + 1, D, T, C))
    /\ UNCHANGED <<owner, releasedBy>>
    /\ Consume

\* An async open that leaves self.callback in the builder, to be dropped with it.
OpenAsync_callback_left_behind(d) ==
    /\ kind = "Async"
    /\ D = d
    /\ \E st \in Statuses, substitute \in BOOLEAN :
         /\ OpenStep(st, substitute, AudioStreamAsync_wrap_raw(platformOpens + 1, callback, d))
         /\ owner' = "released"
         /\ releasedBy' = "builder"
    /\ Consume

\* An async open that, refused by the platform, does not drop self.callback.
OpenAsync_callback_kept_on_failure(d) ==
    /\ kind = "Async"
    /\ D = d
    /\ \E st \in Statuses, substitute \in BOOLEAN :
         /\ OpenStep(st, substitute, AudioStreamAsync_wrap_raw(platformOpens + 1, callback, d))
         /\ owner' = IF st = "Ok" THEN "stream" ELSE owner
         /\ releasedBy' = releasedBy
    /\ Consume

\* An async open that returns the synchronous stream variant.
OpenAsync_sync_variant(d) ==
    /\ kind = "Async"
    /\ D = d
    /\ \E st \in Statuses, substitute \in BOOLEAN :
         /\ OpenStep(st, substitute, AudioStreamSync_wrap_raw(platformOpens + 1, d, T, C))
         /\ owner' = IF st = "Ok" THEN "stream" ELSE "released"
         /\ releasedBy' = IF st = "Ok" THEN releasedBy ELSE "builder"
    /\ Consume

\* On the OK status self.callback moves into the stream; otherwise it is dropped
\* with the builder when the call returns.
OpenAsync(d) ==
    /\ kind = "Async"
    /\ D = d
    /\ \E st \in Statuses, substitute \in BOOLEAN :
         /\ OpenStep(st, substitute, AudioStreamAsync_wrap_raw(platformOpens + 1, callback, d))
         /\ owner' = IF st = "Ok" THEN "stream" ELSE "released"
         /\ releasedBy' = IF st = "Ok" THEN releasedBy ELSE "builder"
    /\ Consume

open_stream_input == OpenAsync("Input")

open_stream_output == OpenAsync("Output")

(***************************************************************************)
(* The opened stream: close, and the drop of the stream object.            *)
(***************************************************************************)
StreamLive == stream.tag \in {"Sync", "Async"} /\ ~crashed

close ==
    /\ StreamLive
    /\ nativeStreams[stream.raw].state = "Open"
    /\ ~inCallback
    /\ nativeStreams' = [nativeStreams EXCEPT ![stream.raw].state = "Closed"]
    /\ UNCHANGED <<builderVars, callback, owner, releasedBy, result, stream, slot,
                   platformOpens, status, openStreamCalls, platformVars, deviceVars, threadVars>>

drop_stream ==
    /\ StreamLive
    /\ ~inCallback
    /\ nativeStreams' = [h \in DOMAIN nativeStreams \ {stream.raw} |-> nativeStreams[h]]
    /\ stream' = [tag |-> "dropped", was |-> stream.tag]
    /\ owner' = IF stream.tag = "Async" THEN "released" ELSE owner
    /\ releasedBy' = IF stream.tag = "Async" THEN "stream" ELSE releasedBy
    /\ UNCHANGED <<builderVars, callback, result, slot, platformOpens, status,
                   openStreamCalls, platformVars, deviceVars, threadVars>>

(***************************************************************************)
(* The platform's audio thread.                                            *)
(***************************************************************************)
\* The native streams whose callback the platform may invoke.
Invocable ==
    {h \in DOMAIN nativeStreams :
        nativeStreams[h].state = "Open" /\ nativeStreams[h].callback # NullPtr}

audio_thread_invoke ==
    /\ ~crashed
    /\ ~inCallback
    /\ invocations < MaxInvocations
    /\ \E h \in Invocable :
         \/ /\ inCallback' = TRUE
            /\ invocations' = invocations + 1
            /\ UNCHANGED crashed
         \/ /\ nativeStreams[h].callback # AdapterStorage
            /\ crashed' = TRUE
            /\ UNCHANGED <<inCallback, invocations>>
    /\ UNCHANGED <<builderVars, callback, owner, releasedBy, openVars, platformVars, deviceVars,
                   lateAttempts>>

audio_thread_return ==
    /\ ~crashed
    /\ inCallback
    /\ inCallback' = FALSE
    /\ UNCHANGED <<builderVars, callback, owner, releasedBy, openVars, platformVars, deviceVars,
                   invocations, lateAttempts, crashed>>

\* The platform attempts an invocation on a stream that has been closed.
late_attempt ==
    /\ ~crashed
    /\ lateAttempts < MaxLateAttempts
    /\ \/ /\ stream.tag = "Async"
          /\ nativeStreams[stream.raw].state = "Closed"
       \/ /\ stream.tag = "dropped"
          /\ stream.was = "Async"
    /\ lateAttempts' = lateAttempts + 1
    /\ UNCHANGED <<builderVars, callback, owner, releasedBy, openVars, platformVars, deviceVars,
                   inCallback, invocations, crashed>>

Setters ==
    \/ \E X \in ChannelCounts : set_channel_count(X)
    \/ set_mono
    \/ set_stereo
    \/ \E X \in Directions : set_direction(X)
    \/ set_input
    \/ set_output
    \/ \E X \in Formats : set_format(X)
    \/ set_i16
    \/ set_f32
    \/ \E v \in SampleRates : set_sample_rate(v)
    \/ \E v \in FrameCounts : set_frames_per_callback(v)
    \/ \E v \in FrameCounts : set_buffer_capacity_in_frames(v)
    \/ \E v \in AudioApis : set_audio_api(v)
    \/ \E v \in SharingModes : set_sharing_mode(v)
    \/ set_shared
    \/ set_exclusive
    \/ \E v \in PerformanceModes : set_performance_mode(v)
    \/ \E v \in Usages : set_usage(v)
    \/ \E v \in ContentTypes : set_content_type(v)
    \/ \E v \in InputPresets : set_input_preset(v)
    \/ \E v \in SessionIds : set_session_id(v)
    \/ \E v \in DeviceIds : set_device_id(v)
    \/ \E v \in BOOLEAN : set_channel_conversion_allowed(v)
    \/ \E v \in BOOLEAN : set_format_conversion_allowed(v)
    \/ \E v \in Qualities : set_sample_rate_conversion_quality(v)

Next ==
    \/ Setters
    \/ call_get_audio_api
    \/ call_will_use_aaudio
    \/ \E F \in Callbacks : set_callback_input(F)
    \/ \E F \in Callbacks : set_callback_output(F)
    \/ open_stream
    \/ open_stream_input
    \/ open_stream_output
    \/ close
    \/ drop_stream
    \/ audio_thread_invoke
    \/ audio_thread_return
    \/ late_attempt

Spec == Init /\ [][Next]_vars

(***************************************************************************)
(* Configure and open: a new builder, the convenience setters of the three *)
(* axes and set_sample_rate, in any order and number within the scenario's *)
(* calls, then the synchronous open_stream and the life of its stream.     *)
(***************************************************************************)
ScenarioInit == Fresh /\ callBudget = ScenarioCalls /\ devices = <<>>

ScenarioNext ==
    \/ set_input
    \/ set_output
    \/ set_mono
    \/ set_stereo
    \/ set_i16
    \/ set_f32
    \/ \E v \in SampleRates : set_sample_rate(v)
    \/ open_stream
    \/ close
    \/ drop_stream

ScenarioSpec == ScenarioInit /\ [][ScenarioNext]_vars

(***************************************************************************)
(* java_interface/definitions.rs: AudioManager's GET_DEVICES_* flags and   *)
(* AudioDeviceDirection.                                                   *)
(***************************************************************************)
\* a << n, for shifts that stay far below the width of i32
Shl(a, n) == a * 2^n

RECURSIVE BitOr(_, _)
\* a | b on non-negative integers
BitOr(a, b) ==
    IF a = 0 THEN b
    ELSE IF b = 0 THEN a
    ELSE (IF a % 2 = 1 \/ b % 2 = 1 THEN 1 ELSE 0) + 2 * BitOr(a \div 2, b \div 2)

GET_DEVICES_INPUTS == Shl(1, 0)

GET_DEVICES_OUTPUTS == Shl(1, 1)

GET_DEVICES_ALL == BitOr(GET_DEVICES_INPUTS, GET_DEVICES_OUTPUTS)

AudioDeviceDirections == {"Input", "Output", "InputOutput"}

\* The enum's discriminants (#[repr(i32)]).
AudioDeviceDirectionAsI32(d) ==
    CASE d = "Input" -> GET_DEVICES_INPUTS
      [] d = "Output" -> GET_DEVICES_OUTPUTS
      [] d = "InputOutput" -> GET_DEVICES_ALL

None == [tag |-> "None"]

Some(v) == [tag |-> "Some", value |-> v]

\* A new with the two single directions exchanged.
AudioDeviceDirection_new_swapped(is_input, is_output) ==
    CASE is_input /\ is_output -> Some("InputOutput")
      [] ~is_input /\ is_output -> Some("Input")
      [] is_input /\ ~is_output -> Some("Output")
      [] OTHER -> None

AudioDeviceDirection_new(is_input, is_output) ==
    CASE is_input /\ is_output -> Some("InputOutput")
      [] ~is_input /\ is_output -> Some("Output")
      [] is_input /\ ~is_output -> Some("Input")
      [] OTHER -> None

AudioDeviceDirection_is_input(d) == d # "Output"

AudioDeviceDirection_is_output(d) == d # "Input"

\* One call of AudioDeviceDirection::new, for one more device.
call_AudioDeviceDirection_new(is_input, is_output) ==
    /\ Len(devices) < MaxDevices
    /\ devices' = Append(devices, [is_input |-> is_input,
                                   is_output |-> is_output,
                                   direction |-> AudioDeviceDirection_new(is_input, is_output)])
    /\ UNCHANGED <<builderVars, callback, owner, releasedBy, openVars, platformVars,
                   threadVars>>

DeviceInit == Fresh /\ callBudget = MaxCalls /\ devices = <<>>

DeviceNext == \E is_input \in BOOLEAN, is_output \in BOOLEAN :
                  call_AudioDeviceDirection_new(is_input, is_output)

DeviceSpec == DeviceInit /\ [][DeviceNext]_vars

(***************************************************************************)
(* Properties.                                                             *)
(***************************************************************************)
BuilderHeld == kind \in {"Sync", "Async"}

\* The record field an orthogonal setter is documented to set.
FieldOf(setter, r) ==
    CASE setter = "set_sample_rate" -> r._base.mSampleRate
      [] setter = "set_frames_per_callback" -> r._base.mFramesPerCallback
      [] setter = "set_buffer_capacity_in_frames" -> r._base.mBufferCapacityInFrames
      [] setter = "set_audio_api" -> r.mAudioApi
      [] setter = "set_sharing_mode" -> r._base.mSharingMode
      [] setter = "set_performance_mode" -> r._base.mPerformanceMode
      [] setter = "set_usage" -> r._base.mUsage
      [] setter = "set_content_type" -> r._base.mContentType
      [] setter = "set_input_preset" -> r._base.mInputPreset
      [] setter = "set_session_id" -> r._base.mSessionId
      [] setter = "set_device_id" -> r._base.mDeviceId
      [] setter = "set_channel_conversion_allowed" -> r._base.mChannelConversionAllowed
      [] setter = "set_format_conversion_allowed" -> r._base.mFormatConversionAllowed
      [] setter = "set_sample_rate_conversion_quality" -> r._base.mSampleRateConversionQuality

\* The value of the record's type that an argument of a setter stands for.
ValueOf(setter, arg) ==
    CASE setter = "set_audio_api" -> AudioApiAsI32(arg)
      [] setter = "set_sharing_mode" -> SharingModeAsI32(arg)
      [] setter = "set_performance_mode" -> PerformanceModeAsI32(arg)
      [] setter = "set_usage" -> UsageAsI32(arg)
      [] setter = "set_content_type" -> ContentTypeAsI32(arg)
      [] setter = "set_input_preset" -> InputPresetAsI32(arg)
      [] setter = "set_session_id" -> SessionIdAsI32(arg)
      [] setter = "set_sample_rate_conversion_quality" -> QualityAsI32(arg)
      [] OTHER -> arg

LastOf(seq) == seq[Len(seq)]

\* C1: every field an orthogonal setter owns holds the argument of the last
\* call of that setter, or its default when the setter was never called.  The
\* right-hand side reads only the per-setter call histories, which are the same
\* for every reordering of the calls that keeps each setter's own order.
C1_LastWriteWins ==
    BuilderHeld =>
        \A s \in OrthogonalSetters :
            FieldOf(s, raw) = IF args[s] = <<>>
                              THEN FieldOf(s, oboe_AudioStreamBuilder_new)
                              ELSE ValueOf(s, LastOf(args[s]))

\* One setter called twice with different arguments, another one in between or around.
C1_Witness ==
    /\ kind = "Sync"
    /\ args["set_sample_rate"] = <<16000, 48000>>
    /\ args["set_device_id"] = <<7>>

\* The enumerated constants of the type markers, as the record stores them.
ConstantOfDirection(X) == IF X = "Input" THEN DirectionAsI32("Input") ELSE DirectionAsI32("Output")

ConstantOfChannelCount(X) ==
    CASE X = "Mono" -> ChannelCountAsI32("Mono")
      [] X = "Stereo" -> ChannelCountAsI32("Stereo")
      [] X = "Unspecified" -> ChannelCountAsI32("Unspecified")

ConstantOfFormat(X) ==
    CASE X = "i16" -> AudioFormatAsI32("I16")
      [] X = "f32" -> AudioFormatAsI32("F32")
      [] X = "Unspecified" -> AudioFormatAsI32("Unspecified")

DirectionIs(X) == D' = X /\ raw'._base.mDirection = ConstantOfDirection(X)

ChannelCountIs(X) == C' = X /\ raw'._base.mChannelCount = ConstantOfChannelCount(X)

FormatIs(X) == T' = X /\ raw'._base.mFormat = ConstantOfFormat(X)

\* C2: every step of set_direction<X>, set_channel_count<X>, set_format<X> and
\* of their aliases ends with the matching type axis at X and the matching
\* record field at the enumerated constant of X.
C2_TypeNarrowing ==
    [][ /\ \A X \in Directions : set_direction(X) => DirectionIs(X)
        /\ \A X \in ChannelCounts : set_channel_count(X) => ChannelCountIs(X)
        /\ \A X \in Formats : set_format(X) => FormatIs(X)
        /\ set_input => DirectionIs("Input")
        /\ set_output => DirectionIs("Output")
        /\ set_mono => ChannelCountIs("Mono")
        /\ set_stereo => ChannelCountIs("Stereo")
        /\ set_i16 => FormatIs("i16")
        /\ set_f32 => FormatIs("f32") ]_vars

\* All three axes narrowed away from their defaults.
C2_Witness ==
    /\ kind = "Sync"
    /\ <<D, C, T>> = <<"Input", "Stereo", "f32">>
    /\ raw._base.mDirection = ConstantOfDirection("Input")
    /\ raw._base.mChannelCount = ConstantOfChannelCount("Stereo")
    /\ raw._base.mFormat = ConstantOfFormat("f32")

\* The audio API the caller asked for last.
RequestedApi == IF args["set_audio_api"] = <<>> THEN "Unspecified" ELSE LastOf(args["set_audio_api"])

\* C3: will_use_aaudio is true exactly when AAudio was requested and is
\* supported, or nothing was requested and AAudio is recommended; it is false
\* whenever OpenSLES was requested.
C3_WillUseAAudio ==
    kind = "Sync" =>
        /\ will_use_aaudio(raw) <=> \/ (RequestedApi = "AAudio" /\ supported)
                                    \/ (RequestedApi = "Unspecified" /\ recommended)
        /\ RequestedApi = "OpenSLES" => ~will_use_aaudio(raw)

\* AAudio requested on a platform that supports it without recommending it.
C3_Witness ==
    /\ kind = "Sync"
    /\ RequestedApi = "AAudio"
    /\ supported
    /\ ~recommended
    /\ will_use_aaudio(raw)

\* C4: a builder on which no setter has been called has direction Output,
\* channel count and format Unspecified, sharing Shared, both conversions
\* allowed, no sample rate conversion, the type state (Output, Unspecified,
\* Unspecified) and no callback.
C4_Defaults ==
    (kind = "Sync" /\ nCalls = 0) =>
        /\ raw._base.mDirection = DirectionAsI32("Output")
        /\ raw._base.mChannelCount = ChannelCountAsI32("Unspecified")
        /\ raw._base.mFormat = AudioFormatAsI32("Unspecified")
        /\ raw._base.mSharingMode = SharingModeAsI32("Shared")
        /\ raw._base.mChannelConversionAllowed = TRUE
        /\ raw._base.mFormatConversionAllowed = TRUE
        /\ raw._base.mSampleRateConversionQuality = QualityAsI32("None")
        /\ <<D, C, T>> = <<"Output", "Unspecified", "Unspecified">>
        /\ callback = NoCallback
        /\ raw._base.mStreamCallback = NullPtr

\* The builder as new returned it.
C4_Witness ==
    /\ kind = "Sync"
    /\ nCalls = 0
    /\ args = Untouched
    /\ openStreamCalls = 0

Matches(F) == F.trait = D /\ F.T = T /\ F.C = C

\* C5: set_callback is enabled only on a base builder whose direction is the
\* callback's kind and whose (format, channel count) is the callback's frame
\* type; every step that produces an async builder binds such a callback.
C5_BindOnlyMatching ==
    /\ [](\A F \in Callbacks :
            (ENABLED (set_callback_input(F) \/ set_callback_output(F))) =>
                (kind = "Sync" /\ Matches(F)))
    /\ [][(kind' = "Async" /\ kind # "Async") =>
            (kind = "Sync" /\ callback'.D = D /\ Matches(callback'.F))]_vars

\* An input callback for (i16, Mono) bound on an (Input, Mono, i16) builder.
C5_Witness ==
    /\ kind = "Async"
    /\ <<D, C, T>> = <<"Input", "Mono", "i16">>
    /\ callback.F = [trait |-> "Input", T |-> "i16", C |-> "Mono"]

\* Every operation of the two builders.
BuilderOperation ==
    \/ Setters
    \/ call_get_audio_api
    \/ call_will_use_aaudio
    \/ \E F \in Callbacks : set_callback_input(F)
    \/ \E F \in Callbacks : set_callback_output(F)
    \/ open_stream
    \/ open_stream_input
    \/ open_stream_output

\* C6: once open_stream has been called the builder is gone for good, opened
\* or consumed with an error: no setter, no set_callback and no second
\* open_stream is enabled, and the platform's stream-creation entry point has
\* been invoked exactly once for the one open_stream call.
C6_SingleShot ==
    /\ []((openStreamCalls > 0) =>
            /\ kind = "Moved"
            /\ result.tag \in {"Ok", "Err"}
            /\ ~ENABLED BuilderOperation
            /\ openStreamCalls = 1
            /\ platformOpens = openStreamCalls)
    /\ []((openStreamCalls = 0) => (platformOpens = 0 /\ result = NoResult /\ kind # "Moved"))
    /\ [][kind = "Moved" =>
            (kind' = "Moved" /\ UNCHANGED <<raw, platformOpens, openStreamCalls, result>>)]_vars

\* The builder after an open_stream that the platform refused.
C6_Witness ==
    /\ kind = "Moved"
    /\ result.tag = "Err"
    /\ platformOpens = 1
    /\ openStreamCalls = 1

StreamHeld == stream.tag \in {"Sync", "Async"}

\* C7: after a successful open exactly one native stream exists and the
\* returned stream object holds its handle, until that object is dropped;
\* after a failed open no native stream exists and there is no stream object.
C7_OneNativeStream ==
    /\ result.tag = "Ok" =>
          /\ stream.tag \in {"Sync", "Async", "dropped"}
          /\ StreamHeld => DOMAIN nativeStreams = {stream.raw}
          /\ stream.tag = "dropped" => DOMAIN nativeStreams = {}
    /\ result.tag = "Err" => (DOMAIN nativeStreams = {} /\ stream = NoStream)
    /\ result = NoResult => (DOMAIN nativeStreams = {} /\ stream = NoStream)

\* A synchronous stream holding the one native stream.
C7_Witness ==
    /\ result.tag = "Ok"
    /\ stream.tag = "Sync"
    /\ DOMAIN nativeStreams = {stream.raw}
    /\ nativeStreams[stream.raw].state = "Open"

\* C8: open_stream returns a stream object exactly when the platform's status
\* is OK; on any other status it returns an error carrying that status, builds
\* no stream object, never reads the out slot and leaves nothing opened.
C8_StreamIffOk ==
    (openStreamCalls > 0) =>
        /\ status \in Statuses
        /\ (result.tag = "Ok") <=> (status = "Ok")
        /\ (stream # NoStream) <=> (status = "Ok")
        /\ status # "Ok" =>
              /\ result = [tag |-> "Err", error |-> status]
              /\ slot = Uninit
              /\ DOMAIN nativeStreams = {}
        /\ status = "Ok" => slot = "read"

\* An async open the platform refused.
C8_Witness ==
    /\ callback # NoCallback
    /\ status = "ErrorUnavailable"
    /\ result = [tag |-> "Err", error |-> "ErrorUnavailable"]
    /\ stream = NoStream

Closed ==
    \/ stream.tag = "dropped"
    \/ (StreamHeld /\ nativeStreams[stream.raw].state = "Closed")

DirectionRetyping ==
    \/ \E X \in Directions : set_direction(X)
    \/ set_input
    \/ set_output

\* C11: from set_callback on, the direction is the one the base builder had
\* when the callback was bound: the async builder's type axis and record field
\* hold it, no direction re-typing is enabled on the async builder, and the
\* stream that open_stream produces carries the same direction tag.
C11_DirectionFrozen ==
    callback # NoCallback =>
        /\ callback.D \in Directions
        /\ D = callback.D
        /\ kind = "Async" =>
              /\ raw._base.mDirection = ConstantOfDirection(callback.D)
              /\ ~ENABLED DirectionRetyping
        /\ stream.tag = "Async" => stream.D = callback.D

\* An input stream opened from a builder that was re-typed to Input before the bind.
C11_Witness ==
    /\ callback # NoCallback
    /\ callback.D = "Input"
    /\ kind = "Moved"
    /\ stream.tag = "Async"
    /\ stream.D = "Input"

\* What the opened stream reports about itself.
Reported == nativeStreams[stream.raw].actual

\* The platform opened the stream with every value the record r asked for.
Unmodified(r, actual) ==
    /\ actual.direction = r._base.mDirection
    /\ r._base.mChannelCount # ChannelCountAsI32("Unspecified") =>
          actual.channelCount = r._base.mChannelCount
    /\ r._base.mFormat # AudioFormatAsI32("Unspecified") => actual.format = r._base.mFormat
    /\ r._base.mSampleRate # 0 => actual.sampleRate = r._base.mSampleRate

\* The last calls on the four settings were set_input, set_mono, set_i16 and
\* set_sample_rate(16000).
ScenarioConfigured ==
    /\ <<D, C, T>> = <<"Input", "Mono", "i16">>
    /\ args["set_sample_rate"] # <<>>
    /\ LastOf(args["set_sample_rate"]) = 16000

\* C12: an open_stream that the platform answers with OK succeeds, and when
\* the platform took the request unmodified the stream reports what the
\* setters called before the open add up to: the direction, and the channel
\* count, format and sample rate that were last asked for.  After set_input,
\* set_mono, set_i16 and set_sample_rate(16000) that is direction Input,
\* channel count 1, format Int16 and sample rate 16000.
C12_OpenReportsConfiguration ==
    /\ [][(open_stream /\ status' = "Ok") => (result'.tag = "Ok" /\ stream'.tag = "Sync")]_vars
    /\ [][(open_stream /\ result'.tag = "Ok" /\ Unmodified(raw, Reported')) =>
            /\ Reported'.direction = ConstantOfDirection(D)
            /\ C # "Unspecified" => Reported'.channelCount = ConstantOfChannelCount(C)
            /\ T # "Unspecified" => Reported'.format = ConstantOfFormat(T)
            /\ args["set_sample_rate"] # <<>> =>
                  Reported'.sampleRate = LastOf(args["set_sample_rate"])
            /\ ScenarioConfigured =>
                  /\ Reported'.direction = DirectionAsI32("Input")
                  /\ Reported'.channelCount = 1
                  /\ Reported'.format = AudioFormatAsI32("I16")
                  /\ Reported'.sampleRate = 16000]_vars

\* The stream of the scenario: four setter calls were needed to get here.
C12_Witness ==
    /\ callBudget = ScenarioCalls
    /\ kind = "Moved"
    /\ <<D, C, T>> = <<"Input", "Mono", "i16">>
    /\ result.tag = "Ok"
    /\ stream.tag = "Sync"
    /\ Reported.direction = DirectionAsI32("Input")
    /\ Reported.channelCount = 1
    /\ Reported.format = AudioFormatAsI32("I16")
    /\ Reported.sampleRate = 16000

\* AAudio was requested of a platform that does not support it.
UnsupportedAAudioRequested == kind = "Sync" /\ RequestedApi = "AAudio" /\ ~supported

\* C13: with AAudio requested on a platform that reports it unsupported,
\* will_use_aaudio is false, open_stream can still succeed, and every stream
\* it then returns is served by OpenSL ES.
C13_UnsupportedAAudioFallsBack ==
    /\ [](UnsupportedAAudioRequested =>
            /\ ~will_use_aaudio(raw)
            /\ ENABLED (open_stream /\ result'.tag = "Ok"))
    /\ [][(UnsupportedAAudioRequested /\ open_stream /\ result'.tag = "Ok") =>
            (StreamHeld' /\ Reported'.audioApi = "OpenSLES")]_vars

\* AAudio requested where it is recommended yet unsupported: the predicate is
\* false and an open that succeeds on OpenSL ES is one step away.
C13_Witness ==
    /\ UnsupportedAAudioRequested
    /\ recommended
    /\ ~will_use_aaudio(raw)
    /\ ENABLED (open_stream /\ result'.tag = "Ok" /\ Reported'.audioApi = "OpenSLES")

\* C14: whatever audio API was requested and whatever the two probes say, the
\* value will_use_aaudio has on the builder that open_stream is called on is
\* true exactly when the stream open_stream returns is served by AAudio.
C14_PredicateMirrorsBackend ==
    [][(open_stream /\ result'.tag = "Ok") =>
         /\ StreamHeld'
         /\ Reported'.audioApi \in {"AAudio", "OpenSLES"}
         /\ will_use_aaudio(raw) <=> (Reported'.audioApi = "AAudio")]_vars

\* A stream served by AAudio where AAudio is supported but not recommended:
\* it was asked for by name.
C14_Witness ==
    /\ kind = "Moved"
    /\ result.tag = "Ok"
    /\ stream.tag = "Sync"
    /\ supported
    /\ ~recommended
    /\ Reported.audioApi = "AAudio"

\* A step of open_stream, of either builder.
OpenStreamStep == openStreamCalls' = openStreamCalls + 1

\* The session id asked for last was SessionId::Allocate.
AllocateRequested ==
    /\ BuilderHeld
    /\ args["set_session_id"] # <<>>
    /\ LastOf(args["set_session_id"]) = "Allocate"

\* C15: when the last session id requested before a successful open_stream was
\* SessionId::Allocate, the stream does not report the Allocate sentinel back:
\* it reports an allocated id, a positive integer.
C15_AllocateResolved ==
    [][(AllocateRequested /\ OpenStreamStep /\ result'.tag = "Ok") =>
         /\ StreamHeld'
         /\ Reported'.sessionId # SessionIdAsI32("Allocate")
         /\ Reported'.sessionId # SessionIdAsI32("None")
         /\ Reported'.sessionId > 0]_vars

\* An opened stream that reports an allocated session id.
C15_Witness ==
    /\ result.tag = "Ok"
    /\ StreamHeld
    /\ Reported.sessionId > 0

\* C16: an open that the platform answers with OK succeeds also when the
\* platform opened the stream with values other than the requested ones; the
\* returned stream holds the platform's stream, and what it reports are the
\* values the platform opened it with, not those of the request record.
C16_SubstitutionIsNotAnError ==
    [][(OpenStreamStep /\ status' = "Ok") =>
         /\ result'.tag = "Ok"
         /\ StreamHeld'
         /\ stream'.raw = platformOpens'
         /\ DOMAIN nativeStreams' = {stream'.raw}
         /\ \E substitute \in BOOLEAN : Reported' = Negotiate(raw, substitute)
         /\ Differs(raw, nativeStreams'[platformOpens'].actual) =>
               Differs(raw, Reported')]_vars

\* A stream opened from a builder that asked for f32, which reports Int16 (and
\* 48000 Hz): the platform substituted.
C16_Witness ==
    /\ result.tag = "Ok"
    /\ StreamHeld
    /\ T = "f32"
    /\ Reported.format = AudioFormatAsI32("I16")
    /\ Reported.sampleRate = 48000

\* C17: the pointer set_callback stores in mStreamCallback designates the
\* callback wrapper where it lives now: in the async builder while that is
\* held, in the stream once open_stream has moved it there; the pointer the
\* platform was given for an open stream designates it too.  It is never the
\* address of a temporary, nor of storage the wrapper has left.
C17_PointerDesignatesAdapter ==
    /\ kind = "Async" =>
          /\ owner = "builder"
          /\ raw._base.mStreamCallback = AdapterStorage
    /\ \A h \in Invocable : nativeStreams[h].callback = AdapterStorage

\* An async stream whose registered pointer is the address of the temporary,
\* and an invocation through it that faulted.
C17_Witness ==
    /\ stream.tag = "Async"
    /\ owner = "stream"
    /\ nativeStreams[stream.raw].callback = TemporaryPtr
    /\ nativeStreams[stream.raw].callback # AdapterStorage
    /\ crashed

\* C18: the record of a base builder has a null callback pointer whatever
\* setters were called, the record of an async builder has a non-null one, and
\* a stream opened from the base builder is the synchronous variant, for
\* which the platform was given no callback.
C18_CallbackPointerNullUnlessBound ==
    /\ kind = "Sync" => (raw._base.mStreamCallback = NullPtr /\ callback = NoCallback)
    /\ kind = "Async" => (raw._base.mStreamCallback # NullPtr /\ callback # NoCallback)
    /\ (result.tag = "Ok" /\ callback = NoCallback) => stream.tag \in {"Sync", "dropped"}
    /\ stream.tag = "Sync" =>
          /\ callback = NoCallback
          /\ nativeStreams[stream.raw].callback = NullPtr
          /\ stream.raw \notin Invocable
    /\ stream.tag = "Async" => nativeStreams[stream.raw].callback # NullPtr

\* A synchronous stream opened from a base builder whose setters of all three
\* kinds were called first.
C18_Witness ==
    /\ stream.tag = "Sync"
    /\ <<D, C>> = <<"Input", "Mono">>
    /\ Reported.sampleRate = 16000
    /\ nativeStreams[stream.raw].state = "Open"
    /\ nativeStreams[stream.raw].callback = NullPtr

\* The record's three typed fields hold the constants of the type parameters.
AxesAgree ==
    /\ raw._base.mDirection = ConstantOfDirection(D)
    /\ raw._base.mChannelCount = ConstantOfChannelCount(C)
    /\ raw._base.mFormat = ConstantOfFormat(T)

\* C19: in every state of a builder, the record's direction, channel count and
\* format are the constants of the builder's type parameters; a narrowing of
\* an axis that was narrowed before replaces the earlier one in the type and
\* in the record alike.
C19_AxesAgreeWithRecord ==
    /\ [](BuilderHeld => (D \in Directions /\ C \in ChannelCounts /\ T \in Formats /\ AxesAgree))
    /\ [][ /\ \A X \in Directions :
                 (D # X /\ set_direction(X)) => (DirectionIs(X) /\ AxesAgree')
           /\ \A X \in ChannelCounts :
                 (C \notin {X, "Unspecified"} /\ set_channel_count(X)) =>
                     (ChannelCountIs(X) /\ AxesAgree')
           /\ \A X \in Formats :
                 (T \notin {X, "Unspecified"} /\ set_format(X)) =>
                     (FormatIs(X) /\ AxesAgree') ]_vars

\* Three calls, all of them typed setters, that left the format unspecified:
\* the direction or the channel count was set more than once.
C19_Witness ==
    /\ kind = "Sync"
    /\ nCalls = 3
    /\ args = Untouched
    /\ <<D, C, T>> = <<"Input", "Stereo", "Unspecified">>
    /\ AxesAgree

\* Of the record, at most the field f of _base changes in the step.
OnlyBaseField(f) ==
    /\ DOMAIN raw'._base = DOMAIN raw._base
    /\ \A g \in DOMAIN raw._base \ {f} : raw'._base[g] = raw._base[g]
    /\ raw'.mAudioApi = raw.mAudioApi

\* The step of an orthogonal setter that owns the field f of _base.
OrthogonalFrame(f) == OnlyBaseField(f) /\ UNCHANGED <<D, C, T, kind, callback>>

\* C20: a type-narrowing setter changes its own axis and record field and
\* nothing else of the builder; an orthogonal setter changes its own record
\* field and nothing else; get_audio_api and will_use_aaudio change nothing.
C20_SettersChangeOnlyTheirField ==
    [][ /\ (set_input \/ set_output \/ \E X \in Directions : set_direction(X)) =>
              (OnlyBaseField("mDirection") /\ UNCHANGED <<C, T, kind, callback>>)
        /\ (set_mono \/ set_stereo \/ \E X \in ChannelCounts : set_channel_count(X)) =>
              (OnlyBaseField("mChannelCount") /\ UNCHANGED <<D, T, kind, callback>>)
        /\ (set_i16 \/ set_f32 \/ \E X \in Formats : set_format(X)) =>
              (OnlyBaseField("mFormat") /\ UNCHANGED <<D, C, kind, callback>>)
        /\ (\E v \in SampleRates : set_sample_rate(v)) => OrthogonalFrame("mSampleRate")
        /\ (\E v \in FrameCounts : set_frames_per_callback(v)) =>
              OrthogonalFrame("mFramesPerCallback")
        /\ (\E v \in FrameCounts : set_buffer_capacity_in_frames(v)) =>
              OrthogonalFrame("mBufferCapacityInFrames")
        /\ (\E v \in AudioApis : set_audio_api(v)) =>
              (raw'._base = raw._base /\ UNCHANGED <<D, C, T, kind, callback>>)
        /\ (set_shared \/ set_exclusive \/ \E v \in SharingModes : set_sharing_mode(v)) =>
              OrthogonalFrame("mSharingMode")
        /\ (\E v \in PerformanceModes : set_performance_mode(v)) =>
              OrthogonalFrame("mPerformanceMode")
        /\ (\E v \in Usages : set_usage(v)) => OrthogonalFrame("mUsage")
        /\ (\E v \in ContentTypes : set_content_type(v)) => OrthogonalFrame("mContentType")
        /\ (\E v \in InputPresets : set_input_preset(v)) => OrthogonalFrame("mInputPreset")
        /\ (\E v \in SessionIds : set_session_id(v)) => OrthogonalFrame("mSessionId")
        /\ (\E v \in DeviceIds : set_device_id(v)) => OrthogonalFrame("mDeviceId")
        /\ (\E v \in BOOLEAN : set_channel_conversion_allowed(v)) =>
              OrthogonalFrame("mChannelConversionAllowed")
        /\ (\E v \in BOOLEAN : set_format_conversion_allowed(v)) =>
              OrthogonalFrame("mFormatConversionAllowed")
        /\ (\E v \in Qualities : set_sample_rate_conversion_quality(v)) =>
              OrthogonalFrame("mSampleRateConversionQuality")
        /\ (call_get_audio_api \/ call_will_use_aaudio) =>
              UNCHANGED <<raw, D, C, T, kind, callback>> ]_vars

\* A builder after set_stereo, set_audio_api(AAudio) and set_input, in some
\* order: each call left the fields of the other two as they were.
C20_Witness ==
    /\ kind = "Sync"
    /\ nCalls = 3
    /\ <<D, C, T>> = <<"Input", "Stereo", "Unspecified">>
    /\ args = [Untouched EXCEPT !["set_audio_api"] = <<"AAudio">>]
    /\ raw = [oboe_AudioStreamBuilder_new EXCEPT
                 !._base.mDirection = DirectionAsI32("Input"),
                 !._base.mChannelCount = ChannelCountAsI32("Stereo"),
                 !.mAudioApi = AudioApiAsI32("AAudio")]

\* The platform's open was given the record r: the stream it opened has r's
\* callback pointer and values negotiated from r.
HandedToPlatform(r) ==
    status' = "Ok" =>
        /\ platformOpens' \in DOMAIN nativeStreams'
        /\ nativeStreams'[platformOpens'].callback = r._base.mStreamCallback
        /\ \E substitute \in BOOLEAN :
              nativeStreams'[platformOpens'].actual = Negotiate(r, substitute)

\* C21: no setter is enabled on the async builder; set_callback takes the base
\* builder's record over with only the callback pointer changed, nothing
\* changes the async builder's record afterwards, and that record is the one
\* open_stream hands to the platform.
C21_ConfigurationFrozenAtBinding ==
    /\ [](kind = "Async" => ~ENABLED Setters)
    /\ [][(kind = "Sync" /\ kind' = "Async") =>
            /\ OnlyBaseField("mStreamCallback")
            /\ raw'._base.mStreamCallback # raw._base.mStreamCallback
            /\ UNCHANGED <<D, C, T, args>>]_vars
    /\ [][kind = "Async" =>
            \/ UNCHANGED <<kind, raw, D, C, T>>
            \/ (OpenStreamStep /\ kind' = "Moved" /\ HandedToPlatform(raw))]_vars

\* An async stream opened with the channel count and the sample rate that
\* were set before the callback was bound.
C21_Witness ==
    /\ stream.tag = "Async"
    /\ C = "Mono"
    /\ nativeStreams[stream.raw].callback = TemporaryPtr
    /\ Reported.channelCount = ChannelCountAsI32("Mono")
    /\ Reported.sampleRate = 16000

RECURSIVE BitAnd(_, _)
\* a & b on non-negative integers
BitAnd(a, b) ==
    IF a = 0 \/ b = 0 THEN 0
    ELSE (IF a % 2 = 1 /\ b % 2 = 1 THEN 1 ELSE 0) + 2 * BitAnd(a \div 2, b \div 2)

\* C23: AudioDeviceDirection::new returns None exactly for (false, false);
\* for every other pair it returns a direction whose is_input and is_output
\* give the two arguments back.  The value of InputOutput is the bitwise OR
\* of the values of Input and Output, so that the two queries read the two
\* flag bits of the direction's value.
C23_DirectionRoundTrip ==
    /\ \A k \in DOMAIN devices :
          LET e == devices[k]
          IN /\ (e.direction = None) <=> (~e.is_input /\ ~e.is_output)
             /\ e.direction # None =>
                   /\ e.direction.tag = "Some"
                   /\ e.direction.value \in AudioDeviceDirections
                   /\ AudioDeviceDirection_is_input(e.direction.value) = e.is_input
                   /\ AudioDeviceDirection_is_output(e.direction.value) = e.is_output
    /\ AudioDeviceDirectionAsI32("InputOutput") =
          BitOr(AudioDeviceDirectionAsI32("Input"), AudioDeviceDirectionAsI32("Output"))
    /\ <<AudioDeviceDirectionAsI32("Input"), AudioDeviceDirectionAsI32("Output"),
          AudioDeviceDirectionAsI32("InputOutput")>> = <<1, 2, 3>>
    /\ \A d \in AudioDeviceDirections :
          /\ AudioDeviceDirection_is_input(d) <=>
                BitAnd(AudioDeviceDirectionAsI32(d), GET_DEVICES_INPUTS) # 0
          /\ AudioDeviceDirection_is_output(d) <=>
                BitAnd(AudioDeviceDirectionAsI32(d), GET_DEVICES_OUTPUTS) # 0

\* new has been called with each of the four pairs of arguments.
C23_Witness ==
    /\ Len(devices) = 4
    /\ {<<devices[k].is_input, devices[k].is_output>> : k \in DOMAIN devices} =
          BOOLEAN \X BOOLEAN
    /\ {devices[k].direction : k \in DOMAIN devices} =
          {None, Some("Input"), Some("Output"), Some("InputOutput")}

====
